---- MODULE Spec2Model ----
(***************************************************************************)
(* The DEX HTTP API gateway: an express application that turns REST        *)
(* requests into bus invocations on the exchange engine.                   *)
(*                                                                         *)
(* src/ holds four revisions of the module class:                          *)
(*   RevHead    src/index.js lines 17-196                                  *)
(*   RevLegacy  src/index.js lines 215-438                                 *)
(*   Rev002     src/unnamed/part_002                                       *)
(*   Rev003     src/unnamed/part_003                                       *)
(* A deployment loads one of them; the model covers all four.              *)
(***************************************************************************)
EXTENDS Integers, Sequences, FiniteSets, TLC

VARIABLES
  dep,         \* the deployed revision and the options given to its constructor
  pc,          \* position of load(): constructed, awaitLoggerConfig, awaitMarket, loaded, failed
  marketData,  \* this.marketData
  marketId,    \* this.marketId ("" while unassigned)
  routes,      \* paths registered on the express app with app.get
  listening,   \* app.listen has been called
  busLog,      \* every channel.invoke / channel.publish made by load(), in order
  loadTrace,   \* the effects of load(), in the order the code performs them
  loadError,   \* what the promise of load() rejected with, Undefined while it has not
  reqs         \* the HTTP requests: id -> request record

vars == <<dep, pc, marketData, marketId, routes, listening, busLog, loadTrace, loadError, reqs>>

(***************************************************************************)
(* Bounds                                                                  *)
(***************************************************************************)
MaxRequests == 2
MaxLen == 3

(***************************************************************************)
(* JavaScript values                                                       *)
(***************************************************************************)
Undefined == [undefined |-> TRUE]
Null == [null |-> TRUE]
NaN == [nan |-> TRUE]
Num(n) == [num |-> n]
\* a query-string value: the sequence of its characters
Str(s) == [str |-> s]
Arr(a) == [arr |-> a]
Obj(o) == [obj |-> o]
EmptyObject == <<>>

(***************************************************************************)
(* parseInt(string) with no radix argument (ECMAScript parseInt): leading  *)
(* white space is skipped, a sign is read, a 0x/0X prefix selects radix 16 *)
(* and otherwise the radix is 10; the longest prefix of digits of that     *)
(* radix is the value, and no digit at all gives NaN.                      *)
(***************************************************************************)
DecDigits == {"0", "1", "2", "3", "4", "5", "6", "7", "8", "9"}
HexLetters == {"a", "b", "c", "d", "e", "f", "A", "B", "C", "D", "E", "F"}

\* StrWhiteSpaceChar: WhiteSpace and LineTerminator. A character with no
\* escape in a TLA+ string is written by its \uXXXX name.
WhiteSpace ==
  {"\t", "\n", "\f", "\r", " ", "\\u000B", "\\u00A0", "\\uFEFF", "\\u1680",
   "\\u2000", "\\u2001", "\\u2002", "\\u2003", "\\u2004", "\\u2005", "\\u2006",
   "\\u2007", "\\u2008", "\\u2009", "\\u200A", "\\u2028", "\\u2029", "\\u202F",
   "\\u205F", "\\u3000"}

DigitValue(c) ==
  CASE c = "0" -> 0 [] c = "1" -> 1 [] c = "2" -> 2 [] c = "3" -> 3
    [] c = "4" -> 4 [] c = "5" -> 5 [] c = "6" -> 6 [] c = "7" -> 7
    [] c = "8" -> 8 [] c = "9" -> 9 [] c = "a" -> 10 [] c = "b" -> 11
    [] c = "c" -> 12 [] c = "d" -> 13 [] c = "e" -> 14 [] c = "f" -> 15
    [] c = "A" -> 10 [] c = "B" -> 11 [] c = "C" -> 12 [] c = "D" -> 13
    [] c = "E" -> 14 [] c = "F" -> 15

IsDigit(c, radix) == c \in DecDigits \/ (radix = 16 /\ c \in HexLetters)

RECURSIVE TrimLeft(_)
TrimLeft(s) == IF s # <<>> /\ Head(s) \in WhiteSpace THEN TrimLeft(Tail(s)) ELSE s

RECURSIVE DigitPrefix(_, _)
DigitPrefix(s, radix) ==
  IF s # <<>> /\ IsDigit(Head(s), radix)
    THEN <<Head(s)>> \o DigitPrefix(Tail(s), radix)
    ELSE <<>>

RECURSIVE DigitsValue(_, _, _)
DigitsValue(s, radix, acc) ==
  IF s = <<>> THEN acc
  ELSE DigitsValue(Tail(s), radix, acc * radix + DigitValue(Head(s)))

HasSign(s) == s # <<>> /\ Head(s) \in {"-", "+"}
HasHexPrefix(s) == Len(s) >= 2 /\ s[1] = "0" /\ s[2] \in {"x", "X"}

ParseDigits(s, radix, negative) ==
  LET digits == DigitPrefix(s, radix)
      value == DigitsValue(digits, radix, 0)
  IN IF digits = <<>> THEN NaN
     ELSE Num(IF negative THEN 0 - value ELSE value)

\* parseInt(s)
ParseInt(s) ==
  LET t == TrimLeft(s)
      negative == HasSign(t) /\ Head(t) = "-"
      u == IF HasSign(t) THEN Tail(t) ELSE t
  IN IF HasHexPrefix(u)
       THEN ParseDigits(SubSeq(u, 3, Len(u)), 16, negative)
       ELSE ParseDigits(u, 10, negative)

\* parseInt applied to a query value
ParseIntValue(v) == ParseInt(v.str)

(***************************************************************************)
(* The revisions                                                           *)
(***************************************************************************)
RevHead == "index.js:17"
RevLegacy == "index.js:215"
Rev002 == "part_002"
Rev003 == "part_003"

MODULE_ALIAS == "lisk_dex_http_api"

\* JavaScript truthiness of a query value: only the empty string is falsy
Truthy(v) == v.str # <<>>

\* {...query} with limit replaced by parseInt(query.limit)
WithLimitParsed(query) ==
  [k \in DOMAIN query |->
     IF k = "limit" THEN ParseIntValue(query["limit"]) ELSE query[k]]

\* _getSanitizedQuery(query) of index.js:62 and part_003: if (query.limit != null)
SanitizedQueryIfPresent(query) ==
  IF "limit" \in DOMAIN query THEN WithLimitParsed(query) ELSE query

\* _getSanitizedQuery(query) of index.js:313 and part_002: if (query.limit)
SanitizedQueryIfTruthy(query) ==
  IF "limit" \in DOMAIN query /\ Truthy(query["limit"])
    THEN WithLimitParsed(query)
    ELSE query

\* this._getSanitizedQuery(query) in the deployed revision
GetSanitizedQuery(rev, query) ==
  IF rev \in {RevHead, Rev003}
    THEN SanitizedQueryIfPresent(query)
    ELSE SanitizedQueryIfTruthy(query)

Response(status, body) == [status |-> status, body |-> body]
Text(s) == [text |-> s]
\* what a call of _respondWithError leaves behind: the response it sent, or
\* the TypeError it threw reading a property of null/undefined
Sent(r) == [sent |-> r]
Threw == [threw |-> "TypeError"]

TypeError(msg) == [name |-> "TypeError", message |-> msg, sourceError |-> Undefined]

\* _respondWithError(res, error) of index.js:72 and part_003
RespondWithErrorBySource(error) ==
  IF error \in {Null, Undefined} THEN Threw
  ELSE IF error.sourceError \notin {Undefined, Null}
            /\ error.sourceError.name = "InvalidQueryError"
    THEN Sent(Response(400, Text("Invalid query: " \o error.sourceError.message)))
    ELSE Sent(Response(500, Text("Server error")))

\* _respondWithError(res, error) of index.js:323 and part_002
RespondWithErrorByName(error) ==
  IF error \in {Null, Undefined} THEN Threw
  ELSE IF error.name = "InvalidQueryError"
    THEN Sent(Response(400, Text("Invalid query: " \o error.message)))
    ELSE Sent(Response(500, Text("Server error")))

\* this._respondWithError(res, error) in the deployed revision
RespondWithError(rev, error) ==
  IF rev \in {RevHead, Rev003}
    THEN RespondWithErrorBySource(error)
    ELSE RespondWithErrorByName(error)

(***************************************************************************)
(* Routes                                                                  *)
(***************************************************************************)
NativePaths ==
  {"/status", "/orders/bids", "/orders/asks", "/orders", "/order-book",
   "/prices/recent", "/transfers/pending", "/transfers/recent"}
GdaxPaths == {"/gdax/orders/bids", "/gdax/orders/asks", "/gdax/orders"}

\* the app.get calls of load(), revision by revision
RoutesHead == NativePaths
RoutesLegacy ==
  GdaxPaths \cup {"/orders/bids", "/orders/asks", "/orders", "/transfers/pending"}
Routes002 ==
  {"/status", "/orders/bids", "/orders/asks", "/orders", "/transfers/pending"}
    \cup GdaxPaths
Routes003 ==
  {"/status", "/orders/bids", "/orders/asks", "/orders", "/order-book",
   "/prices/recent", "/transfers/pending"} \cup GdaxPaths

RoutesOf(rev) ==
  CASE rev = RevHead -> RoutesHead
    [] rev = RevLegacy -> RoutesLegacy
    [] rev = Rev002 -> Routes002
    [] rev = Rev003 -> Routes003

\* the action each handler invokes
ActionOf(path) ==
  CASE path = "/status" -> "getStatus"
    [] path \in {"/orders/bids", "/gdax/orders/bids"} -> "getBids"
    [] path \in {"/orders/asks", "/gdax/orders/asks"} -> "getAsks"
    [] path \in {"/orders", "/gdax/orders"} -> "getOrders"
    [] path = "/order-book" -> "getOrderBook"
    [] path = "/prices/recent" -> "getRecentPrices"
    [] path = "/transfers/pending" -> "getPendingTransfers"
    [] path = "/transfers/recent" -> "getRecentTransfers"

\* the module alias the handlers address: this.dexModuleAlias,
\* this.chainModuleAlias (part_002) or the literal 'lisk_dex' (index.js:251)
EngineAlias(d) == IF d.rev = RevLegacy THEN "lisk_dex" ELSE d.engineAlias

\* this.alias = alias || MODULE_ALIAS; the older revisions publish under MODULE_ALIAS
SelfAlias(d) ==
  IF d.rev \in {RevHead, Rev003} /\ d.alias # "" THEN d.alias ELSE MODULE_ALIAS

Target(alias, action) == alias \o ":" \o action
Invoke(target, payload) == [op |-> "invoke", target |-> target, payload |-> payload]
\* channel.publish(event): no data argument
Publish(event) == [op |-> "publish", target |-> event, payload |-> Undefined]

\* mutant of HandlerPrologue: the handler parses limit and depth in req.query itself
HandlerPrologueInPlace(rev, path, query) ==
  IF path = "/status" THEN [query |-> query, payload |-> EmptyObject]
  ELSE LET sanitizedQuery == GetSanitizedQuery(rev, query)
           payload ==
             IF path = "/order-book" /\ "depth" \in DOMAIN sanitizedQuery
               THEN [sanitizedQuery EXCEPT !["depth"] = ParseIntValue(sanitizedQuery["depth"])]
               ELSE sanitizedQuery
       IN [query |-> payload, payload |-> payload]

\* the statements of a handler before its await: the request's query as the
\* handler leaves it, and the payload it hands to channel.invoke
HandlerPrologue(rev, path, query) ==
  IF path = "/status" THEN [query |-> query, payload |-> EmptyObject]
  ELSE LET sanitizedQuery == GetSanitizedQuery(rev, query)
       IN [query |-> query,
           payload |->
             IF path = "/order-book" /\ "depth" \in DOMAIN sanitizedQuery
               THEN [sanitizedQuery EXCEPT !["depth"] = ParseIntValue(sanitizedQuery["depth"])]
               ELSE sanitizedQuery]

\* mutant of HandlerInvokes: the combined lists are fetched as bids, then asks
HandlerInvokesBidsThenAsks(d, path, payload) ==
  IF path \in {"/orders", "/gdax/orders"}
    THEN <<Invoke(Target(EngineAlias(d), "getBids"), payload),
           Invoke(Target(EngineAlias(d), "getAsks"), payload)>>
    ELSE <<Invoke(Target(EngineAlias(d), ActionOf(path)), payload)>>

\* the channel.invoke calls one run of a handler makes
HandlerInvokes(d, path, payload) ==
  <<Invoke(Target(EngineAlias(d), ActionOf(path)), payload)>>

(***************************************************************************)
(* The GDAX view: getGDAXBids, getGDAXAsks, getGDAXOrders                  *)
(***************************************************************************)
OptField(order, from, to) ==
  IF from \in DOMAIN order THEN to :> order[from] ELSE EmptyObject

\* mutant of GdaxSide: every route derives side from the record's own tag
GdaxSideFromTag(path, order) ==
  IF "side" \in DOMAIN order /\ order["side"] = "ask" THEN "sell" ELSE "buy"

GdaxSide(path, order) ==
  CASE path = "/gdax/orders/bids" -> "buy"
    [] path = "/gdax/orders/asks" -> "sell"
    [] path = "/gdax/orders" ->
         IF "side" \in DOMAIN order /\ order["side"] = "ask" THEN "sell" ELSE "buy"

\* one order of the view, as res.json writes it (undefined properties are left out)
GdaxOrder(path, order, productId) ==
  OptField(order, "orderId", "id") @@ OptField(order, "price", "price")
    @@ OptField(order, "sizeRemaining", "size")
    @@ OptField(order, "timestamp", "created_at")
    @@ [product_id |-> productId,
        side |-> GdaxSide(path, order),
        stp |-> "dc",
        type |-> "limit",
        time_in_force |-> "GTC",
        post_only |-> FALSE,
        fill_fees |-> "0.0000000000000000",
        filled_size |-> "0.00000000",
        executed_value |-> "0.0000000000000000",
        status |-> "open",
        settled |-> FALSE]

\* orders.map(...) throws a TypeError when the value has no map, or when an
\* element is null or undefined (order.orderId cannot be read)
GdaxMappable(value) ==
  /\ "arr" \in DOMAIN value
  /\ \A i \in 1..Len(value.arr) : value.arr[i] \notin {Null, Undefined}

\* mutant of GdaxView: the view lists the newest order first
GdaxViewReversed(path, value, productId) ==
  Arr([i \in 1..Len(value.arr) |->
         GdaxOrder(path, value.arr[Len(value.arr) + 1 - i], productId)])

GdaxView(path, value, productId) ==
  Arr([i \in 1..Len(value.arr) |-> GdaxOrder(path, value.arr[i], productId)])

(***************************************************************************)
(* The part of a handler after its await.  An outcome is the sequence of   *)
(* things the handler did: ["warn", error], ["respond", response] and, when *)
(* an exception leaves the handler, ["throw", error].                      *)
(***************************************************************************)
Warn(error) == [do |-> "warn", what |-> error]
Respond(r) == [do |-> "respond", what |-> r]
Throw(e) == [do |-> "throw", what |-> e]

\* the catch block: this.logger.warn(error); this._respondWithError(res, error); return
CatchBlock(rev, error) ==
  LET r == RespondWithError(rev, error)
  IN <<Warn(error)>> \o
       (IF r = Threw THEN <<Throw(TypeError("Cannot read property of null"))>>
        ELSE <<Respond(r.sent)>>)

\* mutant of OnResolved: every route answers with the GDAX view
OnResolvedAlwaysGdax(rev, path, value, productId) ==
  IF GdaxMappable(value)
    THEN <<Respond(Response(200,
             GdaxView(IF path \in GdaxPaths THEN path ELSE "/gdax/orders", value, productId)))>>
    ELSE CatchBlock(rev, TypeError("map"))

\* getGDAXBids/getGDAXAsks/getGDAXOrders after its await: how its promise
\* settles once the invoke has settled with reply
GdaxSettled(path, reply, productId) ==
  IF "rejected" \in DOMAIN reply THEN [thrown |-> reply.rejected]
  ELSE IF GdaxMappable(reply.resolved)
    THEN [returned |-> GdaxView(path, reply.resolved, productId)]
    ELSE [thrown |-> TypeError("map")]

\* a /gdax handler after its await of getGDAX*
OnSettled(rev, settled) ==
  IF "returned" \in DOMAIN settled
    THEN <<Respond(Response(200, settled.returned))>>
    ELSE CatchBlock(rev, settled.thrown)

\* the invoke resolved with value: everything the request does from there
OnResolved(rev, path, value, productId) ==
  IF path \in GdaxPaths
    THEN OnSettled(rev, GdaxSettled(path, [resolved |-> value], productId))
    ELSE <<Respond(Response(200, value))>>

\* the invoke rejected with error
OnRejected(rev, path, error) == CatchBlock(rev, error)

(***************************************************************************)
(* Inputs                                                                  *)
(***************************************************************************)
\* the constructor's options (src/defaults/config.js, part_000, part_001)
Deployment(rev, engineAlias, alias, baseChain, quoteChain) ==
  [rev |-> rev, engineAlias |-> engineAlias, alias |-> alias,
   baseChainModuleAlias |-> baseChain, quoteChainModuleAlias |-> quoteChain]

\* a configured module alias
Alias(a) == [alias |-> a]

Deployments ==
  {Deployment(RevHead, "capitalisk_dex", "", Null, Null),
   Deployment(RevHead, "lisk_dex", "dex_api", Alias("lisk"), Null),
   Deployment(RevLegacy, "lisk_dex", "", Null, Null),
   Deployment(Rev002, "lisk_dex", "", Null, Null),
   Deployment(Rev003, "lisk_dex", "dex_api", Null, Null)}

MarketValues == {[baseSymbol |-> "lsk", quoteSymbol |-> "clsk"]}

ChainLines ==
  {<<"GET", "/chain/base/account">>, <<"POST", "/chain/quote/transaction">>}

RequestLines == {<<"GET", p>> : p \in NativePaths \cup GdaxPaths} \cup ChainLines

Chars == {"0", "1", "5", "a", "A", "x", "-", " ", "\t"}

RECURSIVE StringsUpTo(_)
StringsUpTo(n) ==
  IF n = 0 THEN {<<>>}
  ELSE LET shorter == StringsUpTo(n - 1)
       IN shorter \cup {Append(s, c) : s \in shorter, c \in Chars}

Chr(s) == Str(<<s>>)

\* the query of the requests of Spec (SpecQuery varies the query)
GatewayQueries ==
  {[limit |-> Str(<<"1", "0">>), depth |-> Str(<<"5">>), senderId |-> Chr("a")]}

\* the queries of SpecQuery: limit absent or any string of up to MaxLen
\* characters, depth absent, numeric or not, and fields the gateway does not read
LimitParts == {EmptyObject} \cup {[limit |-> Str(s)] : s \in StringsUpTo(MaxLen)}
DepthParts == {EmptyObject, [depth |-> Chr("5")], [depth |-> Str(<<"0", "x", "a">>)]}
OtherParts ==
  {EmptyObject, [senderId |-> Chr("a")], [recipientId |-> Chr("1"), sort |-> Chr("x")]}
AllQueries == {l @@ d @@ o : l \in LimitParts, d \in DepthParts, o \in OtherParts}

BidOrder ==
  [orderId |-> "o1", price |-> "0.5", sizeRemaining |-> "30", size |-> "100",
   side |-> "bid", timestamp |-> "t1"]
AskOrder ==
  [orderId |-> "o2", price |-> "0.7", size |-> "40", side |-> "ask", timestamp |-> "t2"]

\* an order carrying no side tag
UntaggedOrder ==
  [orderId |-> "o3", price |-> "0.6", sizeRemaining |-> "7", size |-> "9", timestamp |-> "t3"]

\* the list the engine returns: neither sorted by id nor by side
EngineOrders == <<AskOrder, BidOrder, UntaggedOrder>>

ResolveValues ==
  {Arr(EngineOrders), Obj([version |-> "1.0.0"])}

Error(name, message, sourceError) ==
  [name |-> name, message |-> message, sourceError |-> sourceError]

RejectValues ==
  {Error("Error", "Invalid query", [name |-> "InvalidQueryError", message |-> "bad limit"]),
   Error("InvalidQueryError", "bad depth", Undefined),
   Error("Error", "wrapped", [name |-> "TimeoutError", message |-> "slow"]),
   Error("Error", "db down", Null),
   Null}

(***************************************************************************)
(* load(channel)                                                           *)
(***************************************************************************)
Init ==
  /\ dep \in Deployments
  /\ pc = "constructed"
  /\ marketData = Undefined
  /\ marketId = ""
  /\ routes = {}
  /\ listening = FALSE
  /\ busLog = <<>>
  /\ loadTrace = <<>>
  /\ loadError = Undefined
  /\ reqs = <<>>

GetMarket(d) == Invoke(Target(EngineAlias(d), "getMarket"), EmptyObject)

\* mutant of LoadStart: the server listens before getMarket has answered
LoadStartListening ==
  /\ pc = "constructed"
  /\ IF dep.rev = RevLegacy
       THEN /\ busLog' = <<Invoke("app:getComponentConfig", "logger")>>
            /\ pc' = "awaitLoggerConfig"
       ELSE /\ busLog' = <<GetMarket(dep)>>
            /\ pc' = "awaitMarket"
  /\ loadTrace' = <<"invoke">>
  /\ listening' = TRUE
  /\ UNCHANGED <<dep, marketData, marketId, routes, loadError, reqs>>

\* load() up to its first await
LoadStart ==
  /\ pc = "constructed"
  /\ IF dep.rev = RevLegacy
       THEN /\ busLog' = <<Invoke("app:getComponentConfig", "logger")>>
            /\ pc' = "awaitLoggerConfig"
       ELSE /\ busLog' = <<GetMarket(dep)>>
            /\ pc' = "awaitMarket"
  /\ loadTrace' = <<"invoke">>
  /\ UNCHANGED <<dep, marketData, marketId, routes, listening, loadError, reqs>>

\* index.js:332-338: the logger configuration arrives, getMarket is invoked
LoggerConfigResolved ==
  /\ pc = "awaitLoggerConfig"
  /\ busLog' = Append(busLog, GetMarket(dep))
  /\ loadTrace' = loadTrace \o <<"logger", "invoke">>
  /\ pc' = "awaitMarket"
  /\ UNCHANGED <<dep, marketData, marketId, routes, listening, loadError, reqs>>

\* an awaited invoke of load() rejects with error: load() has no try around
\* it and rejects with the same error
LoadInvokeRejected(error) ==
  /\ pc \in {"awaitLoggerConfig", "awaitMarket"}
  /\ pc' = "failed"
  /\ loadTrace' = Append(loadTrace, "throw")
  /\ loadError' = error
  /\ UNCHANGED <<dep, marketData, marketId, routes, listening, busLog, reqs>>

\* mutant of LoadSteps: readiness is announced before the server listens
LoadStepsPublishEarly == <<"marketId", "routes", "publish", "listen">>

\* the statements of load() after `this.marketData = await ...`, in code order
LoadSteps == <<"marketId", "routes", "listen", "publish">>

MarketIdOf(data) == data.quoteSymbol \o "-" \o data.baseSymbol

LoadStep(L, step) ==
  CASE step = "marketId" ->
         [L EXCEPT !.marketId = MarketIdOf(L.marketData), !.trace = Append(@, step)]
    [] step = "routes" ->
         [L EXCEPT !.routes = RoutesOf(L.dep.rev), !.trace = Append(@, step)]
    [] step = "listen" ->
         [L EXCEPT !.listening = TRUE, !.trace = Append(@, step)]
    [] step = "publish" ->
         [L EXCEPT !.bus = Append(@, Publish(Target(SelfAlias(L.dep), "bootstrap"))),
                   !.trace = Append(@, step)]

RECURSIVE RunLoadSteps(_, _)
RunLoadSteps(L, steps) ==
  IF steps = <<>> THEN L ELSE RunLoadSteps(LoadStep(L, Head(steps)), Tail(steps))

\* getMarket resolves with data: the rest of load() runs to its end
MarketResolved(data) ==
  /\ pc = "awaitMarket"
  /\ marketData' = data
  /\ IF data = Null
       THEN \* reading quoteSymbol of null throws: load() rejects
            /\ pc' = "failed"
            /\ loadTrace' = loadTrace \o <<"marketData", "throw">>
            /\ loadError' = TypeError("Cannot read property 'quoteSymbol' of null")
            /\ UNCHANGED <<marketId, routes, listening, busLog>>
       ELSE LET L == RunLoadSteps(
                       [dep |-> dep, marketData |-> data, marketId |-> marketId,
                        routes |-> routes, listening |-> listening, bus |-> busLog,
                        trace |-> Append(loadTrace, "marketData")],
                       LoadSteps)
            IN /\ marketId' = L.marketId
               /\ routes' = L.routes
               /\ listening' = L.listening
               /\ busLog' = L.bus
               /\ loadTrace' = L.trace
               /\ pc' = "loaded"
               /\ UNCHANGED loadError
  /\ UNCHANGED <<dep, reqs>>

(***************************************************************************)
(* Requests                                                                *)
(***************************************************************************)
Registered(line) == line[1] = "GET" /\ line[2] \in routes

Responses(r) == SelectSeq(r.did, LAMBDA e : e.do = "respond")
Throws(r) == SelectSeq(r.did, LAMBDA e : e.do = "throw")

\* a request for a registered route arrives: its handler runs up to the await
RouteRequest(line, query) ==
  /\ listening
  /\ Len(reqs) < MaxRequests
  /\ Registered(line)
  /\ LET pro == HandlerPrologue(dep.rev, line[2], query)
     IN reqs' = Append(reqs,
                  [method |-> line[1], path |-> line[2], rawQuery |-> query,
                   query |-> pro.query,
                   invokes |-> HandlerInvokes(dep, line[2], pro.payload),
                   reply |-> Undefined, settled |-> Undefined, did |-> <<>>,
                   state |-> "awaiting"])
  /\ UNCHANGED <<dep, pc, marketData, marketId, routes, listening, busLog, loadTrace, loadError>>

\* a request no app.get matches: express answers 404 itself
UnroutedRequest(line, query) ==
  /\ listening
  /\ Len(reqs) < MaxRequests
  /\ ~Registered(line)
  /\ reqs' = Append(reqs,
               [method |-> line[1], path |-> line[2], rawQuery |-> query,
                query |-> query, invokes |-> <<>>, reply |-> Undefined,
                settled |-> Undefined,
                did |-> <<Respond(Response(404, Text("Cannot " \o line[1] \o " " \o line[2])))>>,
                state |-> "done"])
  /\ UNCHANGED <<dep, pc, marketData, marketId, routes, listening, busLog, loadTrace, loadError>>

\* mutant of Finish: the reply is kept in a field every pending handler reads
FinishShared(i, reply, did) ==
  reqs' = [k \in DOMAIN reqs |->
             IF reqs[k].state \in {"awaiting", "resuming"}
               THEN [reqs[k] EXCEPT !.reply = reply, !.did = did,
                        !.state = IF did[Len(did)].do = "throw" THEN "escaped" ELSE "done"]
               ELSE reqs[k]]

Finish(i, reply, did) ==
  reqs' = [reqs EXCEPT ![i] =
             [@ EXCEPT !.reply = reply, !.did = did,
                       !.state = IF did[Len(did)].do = "throw" THEN "escaped" ELSE "done"]]

\* getGDAX* resumes with the reply and settles its own promise; the handler
\* that awaits it resumes in a later turn
Settle(i, reply) ==
  reqs' = [reqs EXCEPT ![i] =
             [@ EXCEPT !.reply = reply,
                       !.settled = GdaxSettled(reqs[i].path, reply, marketId),
                       !.state = "resuming"]]

\* the engine answers request i's invoke with value
InvokeResolved(i, value) ==
  /\ i \in DOMAIN reqs
  /\ reqs[i].state = "awaiting"
  /\ IF reqs[i].path \in GdaxPaths
       THEN Settle(i, [resolved |-> value])
       ELSE Finish(i, [resolved |-> value],
                   OnResolved(dep.rev, reqs[i].path, value, marketId))
  /\ UNCHANGED <<dep, pc, marketData, marketId, routes, listening, busLog, loadTrace, loadError>>

\* request i's invoke rejects with error
InvokeRejected(i, error) ==
  /\ i \in DOMAIN reqs
  /\ reqs[i].state = "awaiting"
  /\ IF reqs[i].path \in GdaxPaths
       THEN Settle(i, [rejected |-> error])
       ELSE Finish(i, [rejected |-> error], OnRejected(dep.rev, reqs[i].path, error))
  /\ UNCHANGED <<dep, pc, marketData, marketId, routes, listening, busLog, loadTrace, loadError>>

\* the /gdax handler of request i resumes after getGDAX* has settled
HandlerResumes(i) ==
  /\ i \in DOMAIN reqs
  /\ reqs[i].state = "resuming"
  /\ Finish(i, reqs[i].reply, OnSettled(dep.rev, reqs[i].settled))
  /\ UNCHANGED <<dep, pc, marketData, marketId, routes, listening, busLog, loadTrace, loadError>>

Load ==
  \/ LoadStart
  \/ LoggerConfigResolved
  \/ \E error \in RejectValues : LoadInvokeRejected(error)
  \/ \E data \in MarketValues \cup {Null} : MarketResolved(data)

Next ==
  \/ Load
  \/ \E line \in RequestLines, query \in GatewayQueries : RouteRequest(line, query)
  \/ \E line \in RequestLines, query \in GatewayQueries : UnroutedRequest(line, query)
  \/ \E i \in 1..MaxRequests, value \in ResolveValues : InvokeResolved(i, value)
  \/ \E i \in 1..MaxRequests, error \in RejectValues : InvokeRejected(i, error)
  \/ \E i \in 1..MaxRequests : HandlerResumes(i)

Spec == Init /\ [][Next]_vars

\* one request, with every query of AllQueries
NextQuery ==
  \/ Load
  \/ /\ reqs = <<>>
     /\ \E line \in RequestLines, query \in AllQueries : RouteRequest(line, query)

SpecQuery == Init /\ [][NextQuery]_vars

(***************************************************************************)
(* Properties                                                              *)
(***************************************************************************)
Routed(r) == r.method = "GET" /\ r.path \in RoutesOf(dep.rev)
\* the handler has not finished yet
Pending(r) == r.state \in {"awaiting", "resuming"}
\* a request whose handler has finished, and how its invoke had settled
Rejected(r) == ~Pending(r) /\ "rejected" \in DOMAIN r.reply
Resolved(r) == ~Pending(r) /\ "resolved" \in DOMAIN r.reply
Payload(r) == r.invokes[1].payload
\* the invoke attempts made for a request
InvokeAttempts(r) == Len(r.invokes)

HasInvalidQuerySource(e) ==
  e.sourceError \notin {Undefined, Null} /\ e.sourceError.name = "InvalidQueryError"

\* C1: whenever a handler's invoke rejects with an error, the response is 400
\* "Invalid query: <source message>" iff the error's sourceError has the name
\* InvalidQueryError, and otherwise 500 "Server error".
C1_ClassifiedBySourceError ==
  \A i \in DOMAIN reqs :
    LET r == reqs[i]
        e == r.reply.rejected
    IN (Rejected(r) /\ e # Null) =>
         Responses(r) =
           <<Respond(IF HasInvalidQuerySource(e)
                       THEN Response(400, Text("Invalid query: " \o e.sourceError.message))
                       ELSE Response(500, Text("Server error")))>>

\* C2: whatever the invoke of a routed request resolves or rejects with
\* (null included), no error leaves the handler, a finished request has
\* exactly one response, and on a failure path a warning precedes it.
C2_OneResponseNoEscape ==
  \A i \in DOMAIN reqs :
    LET r == reqs[i]
    IN /\ r.state # "escaped"
       /\ Throws(r) = <<>>
       /\ Len(Responses(r)) <= 1
       /\ (r.state = "done" => Len(Responses(r)) = 1)
       /\ (r.state = "done" /\ Routed(r) /\ Responses(r)[1].what.status # 200) =>
            (r.did[1].do = "warn" /\ r.did[Len(r.did)].do = "respond")

\* C3: every request to a registered route makes exactly one invoke attempt,
\* also after the invoke failed, and /orders and /gdax/orders make it to getOrders.
C3_SingleInvoke ==
  \A i \in DOMAIN reqs :
    LET r == reqs[i]
    IN Routed(r) =>
         /\ InvokeAttempts(r) = 1
         /\ r.path \in {"/orders", "/gdax/orders"} =>
              r.invokes[1].target = Target(EngineAlias(dep), "getOrders")

C3_Witness ==
  \E i \in DOMAIN reqs :
    /\ reqs[i].path = "/gdax/orders"
    /\ reqs[i].state = "done"
    /\ Rejected(reqs[i])
    /\ InvokeAttempts(reqs[i]) = 1

\* the settlement-chain alias a /chain request needs
ChainAliasOf(d, path) ==
  IF path \in {"/chain/base/account", "/chain/base/transaction"}
    THEN d.baseChainModuleAlias
    ELSE d.quoteChainModuleAlias

\* C4: a /chain account or transaction request whose chain alias is not
\* configured is answered 501, and no invoke is made for it.
C4_UnconfiguredChainIs501 ==
  \A i \in DOMAIN reqs :
    LET r == reqs[i]
    IN (<<r.method, r.path>> \in ChainLines /\ ChainAliasOf(dep, r.path) = Null) =>
         /\ r.state = "done"
         /\ InvokeAttempts(r) = 0
         /\ Responses(r)[1].what.status = 501

\* the action the route table of the specification gives each path
RequiredAction(path) ==
  CASE path = "/status" -> "getStatus"
    [] path = "/orders/bids" -> "getBids"
    [] path = "/orders/asks" -> "getAsks"
    [] path = "/orders" -> "getOrders"
    [] path = "/order-book" -> "getOrderBook"
    [] path = "/prices/recent" -> "getRecentPrices"
    [] path = "/transfers/pending" -> "getPendingTransfers"
    [] path = "/transfers/recent" -> "getRecentTransfers"
    [] path = "/gdax/orders/bids" -> "getBids"
    [] path = "/gdax/orders/asks" -> "getAsks"
    [] path = "/gdax/orders" -> "getOrders"

RequiredPaths == NativePaths \cup GdaxPaths

\* C5: once load has completed, every path of the required route set is
\* registered, and a request to it invokes the stated action on the engine alias.
C5_RequiredRoutesServed ==
  /\ pc = "loaded" => RequiredPaths \subseteq routes
  /\ \A i \in DOMAIN reqs :
       LET r == reqs[i]
       IN (r.method = "GET" /\ r.path \in RequiredPaths) =>
            /\ Len(r.invokes) = 1
            /\ r.invokes[1].target = Target(EngineAlias(dep), RequiredAction(r.path))

Position(seq, x) == CHOOSE k \in 1..Len(seq) : seq[k] = x
Occurs(seq, x) == \E k \in 1..Len(seq) : seq[k] = x
Before(seq, x, y) == Occurs(seq, y) => (Occurs(seq, x) /\ Position(seq, x) < Position(seq, y))
Published == SelectSeq(busLog, LAMBDA m : m.op = "publish")

\* C6: routes exist, the server listens and requests are handled only once
\* getMarket has resolved and marketId is "<quoteSymbol>-<baseSymbol>"; the
\* event "<selfAlias>:bootstrap" is published once, by a load that completes,
\* after the routes are registered and the server listens.
C6_StartupOrder ==
  /\ (listening \/ routes # {} \/ reqs # <<>> \/ Published # <<>>) =>
       /\ marketData \in MarketValues
       /\ marketId = marketData.quoteSymbol \o "-" \o marketData.baseSymbol
       /\ listening
       /\ routes # {}
  /\ Len(Published) = (IF pc = "loaded" THEN 1 ELSE 0)
  /\ \A k \in 1..Len(Published) :
       Published[k].target =
         (IF dep.alias # "" THEN dep.alias ELSE MODULE_ALIAS) \o ":bootstrap"
  /\ Before(loadTrace, "marketData", "marketId")
  /\ Before(loadTrace, "marketId", "routes")
  /\ Before(loadTrace, "marketId", "listen")
  /\ Before(loadTrace, "routes", "publish")
  /\ Before(loadTrace, "listen", "publish")

C6_Witness ==
  /\ pc = "loaded"
  /\ Len(Published) = 1
  /\ dep.alias # ""
  /\ \E i \in DOMAIN reqs : reqs[i].state = "done" /\ Routed(reqs[i])

\* C7: on a native route, an invoke that resolves with a value is answered
\* 200 with exactly that value as the body (an array: the same records in
\* the same order).
C7_NativePassThrough ==
  \A i \in DOMAIN reqs :
    LET r == reqs[i]
    IN (Routed(r) /\ r.path \in NativePaths /\ Resolved(r)) =>
         /\ r.state = "done"
         /\ r.did = <<Respond(Response(200, r.reply.resolved))>>

C7_Witness ==
  \E i \in DOMAIN reqs :
    /\ reqs[i].path = "/orders/bids"
    /\ Resolved(reqs[i])
    /\ reqs[i].reply.resolved = Arr(EngineOrders)
    /\ Responses(reqs[i])[1].what.body.arr = EngineOrders

Sanitizing(r) == Routed(r) /\ r.path # "/status"

\* the base-10 integer parse of a string: parseInt(s, 10)
ParseIntRadix10(s) ==
  LET t == TrimLeft(s)
      negative == HasSign(t) /\ Head(t) = "-"
      u == IF HasSign(t) THEN Tail(t) ELSE t
  IN ParseDigits(u, 10, negative)

\* C8: a present limit is forwarded as its base-10 integer parse, a present
\* depth likewise on /order-book and unchanged on every other route, and
\* the request is forwarded whatever the values are.
C8_Base10Parse ==
  \A i \in DOMAIN reqs :
    LET r == reqs[i]
        raw == r.rawQuery
    IN Sanitizing(r) =>
         /\ Len(r.invokes) = 1
         /\ DOMAIN Payload(r) = DOMAIN raw
         /\ "limit" \in DOMAIN raw =>
              Payload(r)["limit"] = ParseIntRadix10(raw["limit"].str)
         /\ "depth" \in DOMAIN raw =>
              Payload(r)["depth"] =
                (IF r.path = "/order-book"
                   THEN ParseIntRadix10(raw["depth"].str)
                   ELSE raw["depth"])

LegacyKeys == {"senderId", "recipientId"}
RenamedKey(k) == IF k = "senderId" THEN "senderAddress" ELSE "recipientAddress"

\* C9: the forwarded query holds a senderId value under senderAddress and a
\* recipientId value under recipientAddress, and neither legacy key.
C9_LegacyKeysRenamed ==
  \A i \in DOMAIN reqs :
    LET r == reqs[i]
    IN Sanitizing(r) =>
         /\ DOMAIN Payload(r) \cap LegacyKeys = {}
         /\ \A k \in LegacyKeys \cap DOMAIN r.rawQuery :
              /\ RenamedKey(k) \in DOMAIN Payload(r)
              /\ Payload(r)[RenamedKey(k)] = r.rawQuery[k]

RewrittenKeys == {"limit", "depth"} \cup LegacyKeys

\* C10: the handler leaves the request's query as it arrived, forwards every
\* field other than limit, depth and the legacy keys under the same key with
\* the same value, and forwards a query with none of those fields as it is.
C10_QueryFrame ==
  \A i \in DOMAIN reqs :
    LET r == reqs[i]
        raw == r.rawQuery
    IN Sanitizing(r) =>
         /\ r.query = raw
         /\ \A k \in DOMAIN raw \ RewrittenKeys :
              k \in DOMAIN Payload(r) /\ Payload(r)[k] = raw[k]
         /\ DOMAIN raw \cap RewrittenKeys = {} => Payload(r) = raw

C10_Witness ==
  \E i \in DOMAIN reqs :
    LET r == reqs[i]
    IN /\ r.path = "/order-book"
       /\ "sort" \in DOMAIN r.rawQuery
       /\ "depth" \in DOMAIN r.rawQuery
       /\ Payload(r)["depth"] = Num(5)
       /\ r.query["depth"] = Chr("5")
       /\ Payload(r)["sort"] = Chr("x")

\* a request to a /gdax route whose invoke resolved with a list of records
GdaxListed(r) ==
  /\ Routed(r)
  /\ r.path \in GdaxPaths
  /\ Resolved(r)
  /\ GdaxMappable(r.reply.resolved)
EngineList(r) == r.reply.resolved.arr
ViewList(r) == Responses(r)[1].what.body.arr

\* C11: the view of a list of N engine records has N records, record k built
\* from engine record k, each with status "open", settled false, the zero
\* fill fields, and product_id "<quoteSymbol>-<baseSymbol>" of the market.
C11_ViewKeepsCountAndOrder ==
  \A i \in DOMAIN reqs :
    LET r == reqs[i]
    IN GdaxListed(r) =>
         /\ r.state = "done"
         /\ Len(Responses(r)) = 1
         /\ Responses(r)[1].what.status = 200
         /\ Len(ViewList(r)) = Len(EngineList(r))
         /\ \A k \in 1..Len(EngineList(r)) :
              LET out == ViewList(r)[k]
              IN /\ out["id"] = EngineList(r)[k]["orderId"]
                 /\ out["status"] = "open"
                 /\ out["settled"] = FALSE
                 /\ out["fill_fees"] = "0.0000000000000000"
                 /\ out["executed_value"] = "0.0000000000000000"
                 /\ out["filled_size"] = "0.00000000"
                 /\ out["product_id"] =
                      marketData.quoteSymbol \o "-" \o marketData.baseSymbol

C11_Witness ==
  \E i \in DOMAIN reqs :
    /\ GdaxListed(reqs[i])
    /\ reqs[i].path = "/gdax/orders"
    /\ Len(ViewList(reqs[i])) = 3
    /\ ViewList(reqs[i])[1]["id"] = "o2"
    /\ ViewList(reqs[i])[1]["product_id"] = "clsk-lsk"

\* C12: each record of the view has size equal to the engine record's
\* sizeRemaining when that is present and to its size otherwise, created_at
\* equal to its timestamp and price equal to its price.
C12_SizeFallsBackToSize ==
  \A i \in DOMAIN reqs :
    LET r == reqs[i]
    IN GdaxListed(r) =>
         \A k \in 1..Len(EngineList(r)) :
           LET in == EngineList(r)[k]
               out == ViewList(r)[k]
           IN /\ "size" \in DOMAIN out
              /\ out["size"] =
                   (IF "sizeRemaining" \in DOMAIN in THEN in["sizeRemaining"] ELSE in["size"])
              /\ out["created_at"] = in["timestamp"]
              /\ out["price"] = in["price"]

\* C13: side is "buy" on /gdax/orders/bids and "sell" on /gdax/orders/asks
\* whatever the record's own tag; on /gdax/orders it is "sell" exactly when
\* the tag is "ask", and "buy" for any other tag or none.
C13_SideOfView ==
  \A i \in DOMAIN reqs :
    LET r == reqs[i]
    IN GdaxListed(r) =>
         \A k \in 1..Len(EngineList(r)) :
           LET in == EngineList(r)[k]
               side == ViewList(r)[k]["side"]
           IN /\ side \in {"buy", "sell"}
              /\ r.path = "/gdax/orders/bids" => side = "buy"
              /\ r.path = "/gdax/orders/asks" => side = "sell"
              /\ r.path = "/gdax/orders" =>
                   (side = "sell" <=> ("side" \in DOMAIN in /\ in["side"] = "ask"))

C13_Witness ==
  /\ \E i \in DOMAIN reqs :
       /\ GdaxListed(reqs[i])
       /\ reqs[i].path = "/gdax/orders/bids"
       /\ Len(EngineList(reqs[i])) = 3
       /\ EngineList(reqs[i])[1]["side"] = "ask"
       /\ ViewList(reqs[i])[1]["side"] = "buy"
  /\ \E i \in DOMAIN reqs :
       /\ GdaxListed(reqs[i])
       /\ reqs[i].path = "/gdax/orders"
       /\ Len(EngineList(reqs[i])) = 3
       /\ "side" \notin DOMAIN EngineList(reqs[i])[3]
       /\ ViewList(reqs[i])[3]["side"] = "buy"
       /\ ViewList(reqs[i])[1]["side"] = "sell"

\* the fields of a request that its handler fixed before the await
Own(r) == <<r.method, r.path, r.rawQuery, r.query, r.invokes>>

\* requests i and j came by the same route with the same query and their
\* invokes got the same reply
SameCase(i, j) ==
  /\ ~Pending(reqs[i])
  /\ ~Pending(reqs[j])
  /\ Own(reqs[i]) = Own(reqs[j])
  /\ reqs[i].reply = reqs[j].reply

\* what a request is answered with depends on its own route, query and reply
C14_OwnInputsDecide ==
  \A i, j \in DOMAIN reqs :
    SameCase(i, j) => reqs[i].did = reqs[j].did /\ reqs[i].state = reqs[j].state

\* a step writes marketId and routes only while load runs, and touches at most
\* one request: one that was awaiting, of which it leaves the own fields alone
C14_Step ==
  /\ pc = "loaded" =>
       /\ pc' = "loaded"
       /\ marketId' = marketId
       /\ marketData' = marketData
       /\ routes' = routes
  /\ pc # "loaded" => reqs = <<>> /\ marketId = "" /\ routes = {}
  /\ Len(reqs') >= Len(reqs)
  /\ \A i \in DOMAIN reqs :
       \/ reqs'[i] = reqs[i]
       \/ /\ Pending(reqs[i])
          /\ reqs'[i].state \notin {"awaiting", reqs[i].state}
          /\ Own(reqs'[i]) = Own(reqs[i])
          /\ Len(reqs') = Len(reqs)
          /\ \A j \in DOMAIN reqs \ {i} : reqs'[j] = reqs[j]

\* C14: under every interleaving of requests and replies a request's response
\* is determined by its own route, its own query and the reply to its own
\* invoke; no step of one request changes another, and marketId and routes
\* are written once by load and never again.
C14_HandlersIndependent == [](C14_OwnInputsDecide) /\ [][C14_Step]_vars

\* two requests by the same route in flight, the later one answered first
C14_Witness ==
  /\ Len(reqs) = 2
  /\ Routed(reqs[1])
  /\ reqs[1].path = reqs[2].path
  /\ reqs[1].state = "awaiting"
  /\ reqs[2].state = "done"
  /\ Resolved(reqs[2])

\* load() ended because the promise of its getMarket invoke rejected
GetMarketRejected ==
  /\ pc = "failed"
  /\ marketData = Undefined
  /\ busLog # <<>>
  /\ busLog[Len(busLog)].target = GetMarket(dep).target

\* the gateway never started
Unstarted ==
  /\ routes = {}
  /\ ~listening
  /\ marketId = ""
  /\ reqs = <<>>
  /\ Published = <<>>
  /\ ~Occurs(loadTrace, "routes")
  /\ ~Occurs(loadTrace, "listen")
  /\ ~Occurs(loadTrace, "publish")

\* C15: when the getMarket invoke of load() rejects, load() rejects with the
\* error of that invoke and the gateway stays unstarted: no route registered,
\* no listening server, no request answered, no bootstrap event, for good.
C15_RejectedLoadStaysUnstarted ==
  /\ [][(pc = "awaitMarket" /\ pc' = "failed" /\ marketData' = Undefined)
          => \E error \in RejectValues :
               /\ LoadInvokeRejected(error)
               /\ loadError' = error]_vars
  /\ [](GetMarketRejected => loadError \in RejectValues /\ Unstarted)
  /\ [][~GetMarketRejected]_vars

C15_Witness ==
  /\ GetMarketRejected
  /\ loadError = Error("Error", "db down", Null)
  /\ loadTrace[Len(loadTrace)] = "throw"

====
